---- MODULE Spec2Model ----
(***************************************************************************)
(* The Google Slides embed widget: the URL resolver (extractPresentationId *)
(* and the embedUrl computed value) and the fullscreen controller          *)
(* (toggleFullscreen, toggleCustomFullscreen, the fullscreenchange and     *)
(* orientationchange/resize handlers, the mount/unmount hooks).            *)
(*                                                                         *)
(* The repository holds three revisions of the component.  The variable    *)
(* rev says which one runs:                                                *)
(*   "vue"  - src/src/components/GoogleSlides.vue (one flag, no listeners) *)
(*   "p001" - src/unnamed/part_001 (two flags, fullscreenchange listener)  *)
(*   "p000" - src/unnamed/part_000 (two flags, chrome hiding, timers)      *)
(*                                                                         *)
(* Strings the resolver reads or builds are sequences of one-character     *)
(* strings, so that the regular expressions are matched character by       *)
(* character.                                                              *)
(***************************************************************************)
EXTENDS Integers, Sequences, FiniteSets, TLC

\* Bounds of the model.
MaxMounts == 2
MaxPending == 2
MaxTimers == 1

Revisions == {"vue", "p001", "p000"}
Instances == 1..MaxMounts

(***************************************************************************)
(* URL resolver                                                            *)
(***************************************************************************)
Lower == {"a","b","c","d","e","f","g","h","i","j","k","l","m","n","o","p","q","r","s","t","u","v","w","x","y","z"}
Upper == {"A","B","C","D","E","F","G","H","I","J","K","L","M","N","O","P","Q","R","S","T","U","V","W","X","Y","Z"}
Digit == {"0","1","2","3","4","5","6","7","8","9"}

\* The character class [a-zA-Z0-9-_] of both regular expressions.
IdChars == Lower \cup Upper \cup Digit \cup {"-", "_"}

\* The literal parts of the two regular expressions.
PublishedPath == <<"/","p","r","e","s","e","n","t","a","t","i","o","n","/","d","/","e","/">>
PublishedPrefix == <<"2","P","A","C","X","-">>
RegularPath == <<"/","p","r","e","s","e","n","t","a","t","i","o","n","/","d","/">>

\* The literal lit occurs in u at position i.
LiteralAt(u, lit, i) ==
  /\ i >= 1
  /\ i + Len(lit) - 1 <= Len(u)
  /\ u[i] = lit[1]
  /\ SubSeq(u, i, i + Len(lit) - 1) = lit

\* The regular expression  lit [a-zA-Z0-9-_]+  matches u at position i.
MatchesAt(u, lit, i) ==
  /\ LiteralAt(u, lit, i)
  /\ i + Len(lit) <= Len(u)
  /\ u[i + Len(lit)] \in IdChars

MatchPositions(u, lit) == {i \in 1..Len(u) : MatchesAt(u, lit, i)}

\* String.prototype.match without the g flag: the leftmost match.
FirstMatch(u, lit) ==
  LET ps == MatchPositions(u, lit)
  IN CHOOSE i \in ps : \A j \in ps : i <= j

\* The greedy + : the last index of the longest run of class characters from j.
RunEnd(u, j) == CHOOSE k \in j..Len(u) :
  /\ \A m \in j..k : u[m] \in IdChars
  /\ (k = Len(u) \/ u[k + 1] \notin IdChars)

\* The capture group of a match of  lit (capStart [a-zA-Z0-9-_]+)  at position i.
Capture(u, lit, capStart, i) == SubSeq(u, i + Len(lit), RunEnd(u, i + Len(lit) + Len(capStart)))

\* The result "no presentation" (null) and a found presentation.
Null == <<>>
Presentation(id, isPublished) == <<[id |-> id, isPublished |-> isPublished]>>

publishedMatch(u) == MatchPositions(u, PublishedPath \o PublishedPrefix)
regularMatch(u) == MatchPositions(u, RegularPath)

extractPresentationId(u) ==
  IF publishedMatch(u) # {}
  THEN Presentation(Capture(u, PublishedPath, PublishedPrefix,
                            FirstMatch(u, PublishedPath \o PublishedPrefix)), TRUE)
  ELSE IF regularMatch(u) # {}
       THEN Presentation(Capture(u, RegularPath, <<>>, FirstMatch(u, RegularPath)), FALSE)
       ELSE Null

\* URLSearchParams: the appended (name, value) pairs and toString().
Params == << << <<"s","t","a","r","t">>, <<"f","a","l","s","e">> >>,
             << <<"l","o","o","p">>, <<"f","a","l","s","e">> >>,
             << <<"d","e","l","a","y","m","s">>, <<"3","0","0","0">> >> >>

\* Mutant of toString: the pairs are joined without the "&" separator.
RECURSIVE toString_NoSeparator(_)
toString_NoSeparator(ps) ==
  IF ps = <<>> THEN <<>>
  ELSE ps[1][1] \o <<"=">> \o ps[1][2] \o toString_NoSeparator(Tail(ps))

RECURSIVE toString(_)
toString(ps) ==
  IF ps = <<>> THEN <<>>
  ELSE ps[1][1] \o <<"=">> \o ps[1][2]
       \o (IF Len(ps) > 1 THEN <<"&">> \o toString(Tail(ps)) ELSE <<>>)

PublishedBase == <<"h","t","t","p","s",":","/","/","d","o","c","s",".","g","o","o","g","l","e",".","c","o","m","/","p","r","e","s","e","n","t","a","t","i","o","n","/","d","/","e","/">>
RegularBase == <<"h","t","t","p","s",":","/","/","d","o","c","s",".","g","o","o","g","l","e",".","c","o","m","/","p","r","e","s","e","n","t","a","t","i","o","n","/","d","/">>
EmbedPath == <<"/","e","m","b","e","d","?">>

\* Mutant of computeEmbedUrl: the null check is missing, a URL with an empty
\* ID is built.
computeEmbedUrl_NoNullCheck(u) ==
  LET presentation == extractPresentationId(u)
      queryString == toString(Params)
  IN IF presentation = Null THEN RegularBase \o EmbedPath \o queryString
     ELSE IF presentation[1].isPublished
          THEN PublishedBase \o presentation[1].id \o EmbedPath \o queryString
          ELSE RegularBase \o presentation[1].id \o EmbedPath \o queryString

\* The embedUrl computed value for the input URL u.
computeEmbedUrl(u) ==
  LET presentation == extractPresentationId(u)
      queryString == toString(Params)
  IN IF presentation = Null THEN <<>>
     ELSE IF presentation[1].isPublished
          THEN PublishedBase \o presentation[1].id \o EmbedPath \o queryString
          ELSE RegularBase \o presentation[1].id \o EmbedPath \o queryString

\* Input URLs are written as sequences of pieces; Chars gives the characters
\* of a piece and Text the characters of the whole URL.
Chars(s) ==
  CASE s = "https://docs.google.com" -> <<"h","t","t","p","s",":","/","/","d","o","c","s",".","g","o","o","g","l","e",".","c","o","m">>
    [] s = "https://example.com" -> <<"h","t","t","p","s",":","/","/","e","x","a","m","p","l","e",".","c","o","m">>
    [] s = "https://h" -> <<"h","t","t","p","s",":","/","/","h">>
    [] s = "x/presentation/d/q/" -> <<"x","/","p","r","e","s","e","n","t","a","t","i","o","n","/","d","/","q","/">>
    [] s = "/presentation/d/" -> <<"/","p","r","e","s","e","n","t","a","t","i","o","n","/","d","/">>
    [] s = "/presentation/d/e/" -> <<"/","p","r","e","s","e","n","t","a","t","i","o","n","/","d","/","e","/">>
    [] s = "/presentation/e/" -> <<"/","p","r","e","s","e","n","t","a","t","i","o","n","/","e","/">>
    [] s = "/not-a-slide" -> <<"/","n","o","t","-","a","-","s","l","i","d","e">>
    [] s = "/not-a-slide/" -> <<"/","n","o","t","-","a","-","s","l","i","d","e","/">>
    [] s = "1AbC_23-xyz" -> <<"1","A","b","C","_","2","3","-","x","y","z">>
    [] s = "2PACX-1v" -> <<"2","P","A","C","X","-","1","v">>
    [] s = "1Ab_-x" -> <<"1","A","b","_","-","x">>
    [] s = "2PACX-" -> <<"2","P","A","C","X","-">>
    [] s = "e" -> <<"e">>
    [] s = "" -> <<>>
    [] s = "/edit" -> <<"/","e","d","i","t">>
    [] s = "/pub?start=true" -> <<"/","p","u","b","?","s","t","a","r","t","=","t","r","u","e">>
    [] s = "?x" -> <<"?","x">>
    [] s = "/presentation/d/e/2PACX-z/" -> <<"/","p","r","e","s","e","n","t","a","t","i","o","n","/","d","/","e","/","2","P","A","C","X","-","z","/">>

RECURSIVE Text(_)
Text(pieces) == IF pieces = <<>> THEN <<>> ELSE Chars(Head(pieces)) \o Text(Tail(pieces))

\* Input URLs of the fullscreen specification: a regular presentation and a
\* string that is no presentation URL.
Url1 == <<"https://docs.google.com", "/presentation/d/", "1AbC_23-xyz", "/edit">>
Url3 == <<"https://example.com", "/not-a-slide">>
MainUrls == {Url1, Url3}

\* Input URLs of the resolver specification: prefix, path, ID and rest.
UrlPrefixes == {"https://h", "x/presentation/d/q/"}
UrlPaths == {"/presentation/d/", "/presentation/d/e/", "/presentation/e/", "/not-a-slide/"}
UrlIds == {"2PACX-1v", "1Ab_-x", "2PACX-", "e", ""}
UrlRests == {"", "/pub?start=true", "?x", "/presentation/d/e/2PACX-z/"}
UrlInputs == {<<a, b, c, d>> : a \in UrlPrefixes, b \in UrlPaths, c \in UrlIds, d \in UrlRests}

(***************************************************************************)
(* State                                                                   *)
(***************************************************************************)
VARIABLES
  rev,                  \* the revision of the component that runs
  hasRequestFullscreen, \* containerRef.value.requestFullscreen exists
  url,                  \* props.url, as a sequence of pieces
  rendered,             \* what the template last rendered: "none", "frame" (frame and toggle control) or "placeholder"
  inst,                 \* the component instances created so far; the last is current
  containerRef,         \* containerRef.value is an element (the instance is mounted)
  isCustomFullscreen,   \* the ref of the current instance
  isStandardFullscreen, \* the ref of the current instance
  fullscreenElement,    \* document.fullscreenElement is an element
  pendingRequests,      \* requestFullscreen() promises not yet settled, per instance
  pendingExits,         \* document.exitFullscreen() calls the browser has not done yet
  fsEvents,             \* fullscreenchange events queued by the browser
  listeners,            \* event type -> the instances whose handler is registered
  bodyStyle,            \* document.body.style: overflow, position, width, height
  scrollY,              \* window scroll position set by window.scrollTo(0, y)
  scrollTimers,         \* pending setTimeout(..., 100) callbacks of hideBrowserChrome
  settleTimers,         \* pending setTimeout(..., 200) callbacks, per instance
  afterTick,            \* toggleCustomFullscreen is suspended at await nextTick()
  preStyle,             \* history: document.body.style when simulated fullscreen was last entered
  mountStyle,           \* history: document.body.style when the current instance was mounted
  leaving,              \* history: the last user action was a toggle made in fullscreen with nothing in flight
  lastOp                \* history: the last step taken

vars == <<rev, hasRequestFullscreen, url, rendered, inst, containerRef,
          isCustomFullscreen, isStandardFullscreen, fullscreenElement,
          pendingRequests, pendingExits, fsEvents, listeners, bodyStyle,
          scrollY, scrollTimers, settleTimers, afterTick, preStyle, mountStyle,
          leaving, lastOp>>

\* The variables no step of the resolver specification changes.
fullscreenVars == <<rev, hasRequestFullscreen, inst, containerRef,
          isCustomFullscreen, isStandardFullscreen, fullscreenElement,
          pendingRequests, pendingExits, fsEvents, listeners, bodyStyle,
          scrollY, scrollTimers, settleTimers, afterTick, preStyle, mountStyle,
          leaving>>

EventTypes == {"fullscreenchange", "orientationchange", "resize"}

Style(o, p, w, h) == [overflow |-> o, position |-> p, width |-> w, height |-> h]
Unset == Style("", "", "", "")
\* Inline styles of document.body the host page may have set before the widget runs.
HostStyles == {Unset, Style("scroll", "relative", "50%", "50%")}

RECURSIVE SumTo(_, _)
SumTo(f, n) == IF n = 0 THEN 0 ELSE f[n] + SumTo(f, n - 1)
Total(f) == SumTo(f, MaxMounts)

\* The asynchronous browser operations in flight: fullscreen requests and exits
\* not yet carried out and fullscreenchange events not yet dispatched.
InFlight == Total(pendingRequests) + pendingExits + fsEvents

\* The value of the embedUrl computed.
embedUrl == computeEmbedUrl(Text(url))

\* iframeRef.value is an element: the frame is rendered in a mounted instance.
iframeRef == containerRef /\ rendered = "frame"

\* Mutant of isFullscreen: the simulated flag is left out.
isFullscreen_StandardOnly == isStandardFullscreen

\* isFullscreen of the two-flag revisions.
isFullscreen == isStandardFullscreen \/ isCustomFullscreen

\* The accessible label of the toggle control (:aria-label).
Label ==
  IF rev = "vue"
  THEN (IF isCustomFullscreen THEN "Exit fullscreen" ELSE "Enter fullscreen")
  ELSE (IF isFullscreen THEN "Exit fullscreen" ELSE "Enter fullscreen")

\* The template: v-if="embedUrl" renders the frame and the toggle control,
\* v-else the placeholder.  An empty string is falsy.
Truthy(str) == Len(str) > 0
Render(e) == IF Truthy(e) THEN "frame" ELSE "placeholder"
FrameRendered == containerRef /\ rendered = "frame"
ButtonRendered == containerRef /\ rendered = "frame"
PlaceholderRendered == containerRef /\ rendered = "placeholder"

(***************************************************************************)
(* Initial state: the component is set up and not yet mounted.             *)
(***************************************************************************)
InitFullscreen ==
  /\ rev \in Revisions
  /\ hasRequestFullscreen \in BOOLEAN
  /\ inst = 0
  /\ containerRef = FALSE
  /\ isCustomFullscreen = FALSE
  /\ isStandardFullscreen = FALSE
  /\ fullscreenElement = FALSE
  /\ pendingRequests = [i \in Instances |-> 0]
  /\ pendingExits = 0
  /\ fsEvents = 0
  /\ listeners = [t \in EventTypes |-> {}]
  /\ bodyStyle \in HostStyles
  /\ scrollY = 0
  /\ scrollTimers = 0
  /\ settleTimers = [i \in Instances |-> 0]
  /\ afterTick = FALSE
  /\ preStyle = bodyStyle
  /\ mountStyle = bodyStyle
  /\ leaving = FALSE

Init ==
  /\ InitFullscreen
  /\ url \in MainUrls
  /\ rendered = "none"
  /\ lastOp = "init"

(***************************************************************************)
(* Helpers of the fullscreen controller                                    *)
(***************************************************************************)
addEventListener(ls, type, h) == [ls EXCEPT ![type] = @ \cup {h}]
removeEventListener(ls, type, h) == [ls EXCEPT ![type] = @ \ {h}]

\* The listeners after the onMounted hook of instance i.
onMounted(ls, i) ==
  IF rev = "p000"
  THEN addEventListener(addEventListener(addEventListener(ls,
         "fullscreenchange", i), "orientationchange", i), "resize", i)
  ELSE IF rev = "p001" THEN addEventListener(ls, "fullscreenchange", i)
  ELSE ls

\* Mutant of onBeforeUnmount: the resize listener is not removed.
onBeforeUnmount_KeepsResize(ls, i) ==
  IF rev = "p000"
  THEN removeEventListener(removeEventListener(ls,
         "fullscreenchange", i), "orientationchange", i)
  ELSE IF rev = "p001" THEN removeEventListener(ls, "fullscreenchange", i)
  ELSE ls

\* The listeners after the onBeforeUnmount hook of instance i.
onBeforeUnmount(ls, i) ==
  IF rev = "p000"
  THEN removeEventListener(removeEventListener(removeEventListener(ls,
         "fullscreenchange", i), "orientationchange", i), "resize", i)
  ELSE IF rev = "p001" THEN removeEventListener(ls, "fullscreenchange", i)
  ELSE ls

\* document.body.style after the entry branch of toggleCustomFullscreen.
AppliedStyle(s) ==
  IF rev = "p000" THEN Style("hidden", "fixed", "100%", "100%")
  ELSE [s EXCEPT !.overflow = "hidden"]

\* Mutant of RestoredStyle: the height is not reset.
RestoredStyle_KeepsHeight(s) ==
  IF rev = "p000" THEN Style("", "", "", s.height)
  ELSE [s EXCEPT !.overflow = ""]

\* document.body.style after the exit branch of toggleCustomFullscreen.
RestoredStyle(s) ==
  IF rev = "p000" THEN Style("", "", "", "")
  ELSE [s EXCEPT !.overflow = ""]

\* containerRef.value of instance i is an element.
HasContainer(i) == containerRef /\ i = inst

\* Room for the timers an entry into simulated fullscreen schedules.
TimerRoom == rev = "p000" => (scrollTimers < MaxTimers /\ Total(settleTimers) < MaxTimers)

\* Mutant of toggleCustomFullscreen: the flag is cleared instead of flipped.
toggleCustomFullscreen_ExitOnly(i) ==
  IF ~HasContainer(i)
  THEN UNCHANGED <<isCustomFullscreen, bodyStyle, preStyle, afterTick>>
  ELSE /\ isCustomFullscreen' = FALSE
       /\ bodyStyle' = RestoredStyle(bodyStyle)
       /\ UNCHANGED <<preStyle, afterTick>>

\* Mutant of toggleCustomFullscreen: the guard on containerRef.value is missing.
toggleCustomFullscreen_NoContainerCheck(i) ==
  /\ isCustomFullscreen' = ~isCustomFullscreen
  /\ IF isCustomFullscreen'
     THEN /\ bodyStyle' = AppliedStyle(bodyStyle)
          /\ preStyle' = bodyStyle
          /\ afterTick' = (rev # "vue")
     ELSE /\ bodyStyle' = RestoredStyle(bodyStyle)
          /\ UNCHANGED <<preStyle, afterTick>>

\* toggleCustomFullscreen of instance i, up to its await nextTick().
toggleCustomFullscreen(i) ==
  IF ~HasContainer(i)
  THEN UNCHANGED <<isCustomFullscreen, bodyStyle, preStyle, afterTick>>
  ELSE /\ isCustomFullscreen' = ~isCustomFullscreen
       /\ IF isCustomFullscreen'
          THEN /\ bodyStyle' = AppliedStyle(bodyStyle)
               /\ preStyle' = bodyStyle
               /\ afterTick' = (rev # "vue")
          ELSE /\ bodyStyle' = RestoredStyle(bodyStyle)
               /\ UNCHANGED <<preStyle, afterTick>>

\* Mutant of handleOrientationChange: the timer is scheduled whatever
\* isCustomFullscreen is.
handleOrientationChange_Unguarded(timers, type) ==
  IF inst \in listeners[type]
  THEN [timers EXCEPT ![inst] = @ + 1]
  ELSE timers

\* handleOrientationChange of the current instance, called for an event of
\* the given type: the settle timers afterwards.
handleOrientationChange(timers, type) ==
  IF inst \in listeners[type] /\ isCustomFullscreen
  THEN [timers EXCEPT ![inst] = @ + 1]
  ELSE timers

\* Mutant of hideBrowserChrome: it acts only while simulated fullscreen is active.
hideBrowserChrome_OnlyWhileSimulated ==
  IF isCustomFullscreen
  THEN scrollY' = 1 /\ scrollTimers' = scrollTimers + 1
  ELSE UNCHANGED <<scrollY, scrollTimers>>

\* hideBrowserChrome: window.scrollTo(0, 1) and the 100 ms retry it schedules.
hideBrowserChrome ==
  /\ scrollY' = 1
  /\ scrollTimers' = scrollTimers + 1

\* Mutant of toggleFullscreen: the exit path clears isStandardFullscreen itself.
toggleFullscreen_ClearsFlagOnExit ==
  IF ~containerRef
  THEN UNCHANGED <<pendingExits, pendingRequests, isCustomFullscreen,
                   isStandardFullscreen, bodyStyle, preStyle, afterTick>>
  ELSE IF fullscreenElement
  THEN /\ pendingExits' = pendingExits + 1
       /\ isStandardFullscreen' = FALSE
       /\ UNCHANGED <<pendingRequests, isCustomFullscreen, bodyStyle, preStyle, afterTick>>
  ELSE IF hasRequestFullscreen
  THEN /\ pendingRequests' = [pendingRequests EXCEPT ![inst] = @ + 1]
       /\ UNCHANGED <<pendingExits, isCustomFullscreen, isStandardFullscreen,
                      bodyStyle, preStyle, afterTick>>
  ELSE /\ toggleCustomFullscreen(inst)
       /\ UNCHANGED <<pendingExits, pendingRequests, isStandardFullscreen>>

\* Mutant of toggleFullscreen: it decides on isStandardFullscreen instead of
\* document.fullscreenElement.
toggleFullscreen_DecidesOnFlag ==
  IF ~containerRef
  THEN UNCHANGED <<pendingExits, pendingRequests, isCustomFullscreen,
                   isStandardFullscreen, bodyStyle, preStyle, afterTick>>
  ELSE IF isStandardFullscreen
  THEN /\ pendingExits' = pendingExits + 1
       /\ UNCHANGED <<pendingRequests, isCustomFullscreen, isStandardFullscreen,
                      bodyStyle, preStyle, afterTick>>
  ELSE IF hasRequestFullscreen
  THEN /\ pendingRequests' = [pendingRequests EXCEPT ![inst] = @ + 1]
       /\ UNCHANGED <<pendingExits, isCustomFullscreen, isStandardFullscreen,
                      bodyStyle, preStyle, afterTick>>
  ELSE /\ toggleCustomFullscreen(inst)
       /\ UNCHANGED <<pendingExits, pendingRequests, isStandardFullscreen>>

\* Mutant of toggleFullscreen: without the capability nothing is done.
toggleFullscreen_NoFallback ==
  IF ~containerRef
  THEN UNCHANGED <<pendingExits, pendingRequests, isCustomFullscreen,
                   isStandardFullscreen, bodyStyle, preStyle, afterTick>>
  ELSE IF fullscreenElement
  THEN /\ pendingExits' = pendingExits + 1
       /\ UNCHANGED <<pendingRequests, isCustomFullscreen, isStandardFullscreen,
                      bodyStyle, preStyle, afterTick>>
  ELSE IF hasRequestFullscreen
  THEN /\ pendingRequests' = [pendingRequests EXCEPT ![inst] = @ + 1]
       /\ UNCHANGED <<pendingExits, isCustomFullscreen, isStandardFullscreen,
                      bodyStyle, preStyle, afterTick>>
  ELSE UNCHANGED <<pendingExits, pendingRequests, isCustomFullscreen,
                   isStandardFullscreen, bodyStyle, preStyle, afterTick>>

\* toggleFullscreen of the current instance.
toggleFullscreen ==
  IF ~containerRef
  THEN UNCHANGED <<pendingExits, pendingRequests, isCustomFullscreen,
                   isStandardFullscreen, bodyStyle, preStyle, afterTick>>
  ELSE IF fullscreenElement
  THEN /\ pendingExits' = pendingExits + 1
       /\ UNCHANGED <<pendingRequests, isCustomFullscreen, isStandardFullscreen,
                      bodyStyle, preStyle, afterTick>>
  ELSE IF hasRequestFullscreen
  THEN /\ pendingRequests' = [pendingRequests EXCEPT ![inst] = @ + 1]
       /\ UNCHANGED <<pendingExits, isCustomFullscreen, isStandardFullscreen,
                      bodyStyle, preStyle, afterTick>>
  ELSE /\ toggleCustomFullscreen(inst)
       /\ UNCHANGED <<pendingExits, pendingRequests, isStandardFullscreen>>

\* Mutant of handleFullscreenChange: the flag is set without reading
\* document.fullscreenElement.
handleFullscreenChange_SetsTrue ==
  IF inst \in listeners["fullscreenchange"]
  THEN isStandardFullscreen' = TRUE
  ELSE UNCHANGED isStandardFullscreen

\* handleFullscreenChange of the current instance, when its listener is registered.
handleFullscreenChange ==
  IF inst \in listeners["fullscreenchange"]
  THEN isStandardFullscreen' = fullscreenElement
  ELSE UNCHANGED isStandardFullscreen

(***************************************************************************)
(* Steps                                                                   *)
(***************************************************************************)
\* A new instance of the component is set up, rendered and mounted.
Mount ==
  /\ ~containerRef
  /\ ~afterTick
  /\ inst < MaxMounts
  /\ inst' = inst + 1
  /\ containerRef' = TRUE
  /\ isCustomFullscreen' = FALSE
  /\ isStandardFullscreen' = FALSE
  /\ listeners' = onMounted(listeners, inst + 1)
  /\ rendered' = Render(embedUrl)
  /\ mountStyle' = bodyStyle
  /\ leaving' = FALSE
  /\ lastOp' = "Mount"
  /\ UNCHANGED <<rev, hasRequestFullscreen, url, fullscreenElement,
                 pendingRequests, pendingExits, fsEvents, bodyStyle, scrollY,
                 scrollTimers, settleTimers, afterTick, preStyle>>

\* The current instance is unmounted: its template refs become null.
Unmount ==
  /\ containerRef
  /\ ~afterTick
  /\ containerRef' = FALSE
  /\ listeners' = onBeforeUnmount(listeners, inst)
  /\ leaving' = FALSE
  /\ lastOp' = "Unmount"
  /\ UNCHANGED <<rev, hasRequestFullscreen, url, rendered, inst, isCustomFullscreen,
                 isStandardFullscreen, fullscreenElement, pendingRequests,
                 pendingExits, fsEvents, bodyStyle, scrollY, scrollTimers,
                 settleTimers, afterTick, preStyle, mountStyle>>

\* props.url of the mounted instance changes; the embedUrl computed is
\* re-evaluated and the template rendered again.  (A step of the resolver
\* specification; the fullscreen specification keeps the URL it starts with.)
SetUrl(u) ==
  /\ containerRef
  /\ ~afterTick
  /\ u # url
  /\ url' = u
  /\ rendered' = Render(computeEmbedUrl(Text(u)))
  /\ lastOp' = "SetUrl"
  /\ UNCHANGED fullscreenVars

\* A click on the toggle control of the current instance: the control was
\* rendered (it may outlive the unmount in a detached or leaving element).
ToggleFullscreen ==
  /\ inst >= 1
  /\ rendered = "frame"
  /\ ~afterTick
  /\ (containerRef /\ fullscreenElement) => InFlight < MaxPending
  /\ (containerRef /\ ~fullscreenElement /\ hasRequestFullscreen)
        => InFlight < MaxPending
  /\ (containerRef /\ ~fullscreenElement /\ ~hasRequestFullscreen /\ ~isCustomFullscreen)
        => TimerRoom
  /\ toggleFullscreen
  /\ leaving' = (containerRef /\ isFullscreen /\ InFlight = 0)
  /\ lastOp' = "ToggleFullscreen"
  /\ UNCHANGED <<rev, hasRequestFullscreen, url, rendered, inst, containerRef,
                 fullscreenElement, fsEvents, listeners,
                 scrollY, scrollTimers, settleTimers, mountStyle>>

\* The browser grants a fullscreen request of instance i, whose container is
\* in the document.
RequestResolved(i) ==
  /\ pendingRequests[i] > 0
  /\ HasContainer(i)
  /\ ~afterTick
  /\ pendingRequests' = [pendingRequests EXCEPT ![i] = @ - 1]
  /\ fullscreenElement' = TRUE
  /\ fsEvents' = IF fullscreenElement THEN fsEvents ELSE fsEvents + 1
  /\ lastOp' = "RequestResolved"
  /\ UNCHANGED <<rev, hasRequestFullscreen, url, rendered, inst, containerRef,
                 isCustomFullscreen, isStandardFullscreen, pendingExits, listeners,
                 bodyStyle, scrollY, scrollTimers, settleTimers, afterTick,
                 preStyle, mountStyle, leaving>>

\* The browser rejects a fullscreen request of instance i: the catch
\* continuation calls toggleCustomFullscreen.
RequestRejected(i) ==
  /\ pendingRequests[i] > 0
  /\ ~afterTick
  /\ (HasContainer(i) /\ ~isCustomFullscreen) => TimerRoom
  /\ pendingRequests' = [pendingRequests EXCEPT ![i] = @ - 1]
  /\ toggleCustomFullscreen(i)
  /\ lastOp' = "RequestRejected"
  /\ UNCHANGED <<rev, hasRequestFullscreen, url, rendered, inst, containerRef,
                 isStandardFullscreen, fullscreenElement, pendingExits, fsEvents,
                 listeners, scrollY, scrollTimers, settleTimers, mountStyle, leaving>>

\* toggleCustomFullscreen resumes after await nextTick().
AfterNextTick ==
  /\ afterTick
  /\ afterTick' = FALSE
  /\ IF rev = "p000"
     THEN /\ hideBrowserChrome
          /\ settleTimers' = IF iframeRef
                             THEN handleOrientationChange(settleTimers, "resize")
                             ELSE settleTimers
     ELSE UNCHANGED <<scrollY, scrollTimers, settleTimers>>
  /\ lastOp' = "AfterNextTick"
  /\ UNCHANGED <<rev, hasRequestFullscreen, url, rendered, inst, containerRef,
                 isCustomFullscreen, isStandardFullscreen, fullscreenElement,
                 pendingRequests, pendingExits, fsEvents, listeners, bodyStyle,
                 preStyle, mountStyle, leaving>>

\* The browser carries out a document.exitFullscreen() call.
ExitCompletes ==
  /\ pendingExits > 0
  /\ ~afterTick
  /\ pendingExits' = pendingExits - 1
  /\ fullscreenElement' = FALSE
  /\ fsEvents' = IF fullscreenElement THEN fsEvents + 1 ELSE fsEvents
  /\ lastOp' = "ExitCompletes"
  /\ UNCHANGED <<rev, hasRequestFullscreen, url, rendered, inst, containerRef,
                 isCustomFullscreen, isStandardFullscreen, pendingRequests, listeners,
                 bodyStyle, scrollY, scrollTimers, settleTimers, afterTick,
                 preStyle, mountStyle, leaving>>

\* The user leaves platform fullscreen with the browser's own control (Esc).
UserEscapes ==
  /\ fullscreenElement
  /\ ~afterTick
  /\ InFlight < MaxPending
  /\ fullscreenElement' = FALSE
  /\ fsEvents' = fsEvents + 1
  /\ leaving' = FALSE
  /\ lastOp' = "UserEscapes"
  /\ UNCHANGED <<rev, hasRequestFullscreen, url, rendered, inst, containerRef,
                 isCustomFullscreen, isStandardFullscreen, pendingRequests,
                 pendingExits, listeners, bodyStyle, scrollY, scrollTimers,
                 settleTimers, afterTick, preStyle, mountStyle>>

\* The browser dispatches a queued fullscreenchange event.
FullscreenChange ==
  /\ fsEvents > 0
  /\ ~afterTick
  /\ fsEvents' = fsEvents - 1
  /\ handleFullscreenChange
  /\ lastOp' = "FullscreenChange"
  /\ UNCHANGED <<rev, hasRequestFullscreen, url, rendered, inst, containerRef,
                 isCustomFullscreen, fullscreenElement, pendingRequests,
                 pendingExits, listeners, bodyStyle, scrollY, scrollTimers,
                 settleTimers, afterTick, preStyle, mountStyle, leaving>>

\* The browser dispatches an orientationchange or a resize event (it may
\* find the settle timer of the entry into simulated fullscreen still pending).
OrientationChange(type) ==
  /\ ~afterTick
  /\ Total(settleTimers) <= MaxTimers
  /\ settleTimers' = handleOrientationChange(settleTimers, type)
  /\ leaving' = FALSE
  /\ lastOp' = type
  /\ UNCHANGED <<rev, hasRequestFullscreen, url, rendered, inst, containerRef,
                 isCustomFullscreen, isStandardFullscreen, fullscreenElement,
                 pendingRequests, pendingExits, fsEvents, listeners, bodyStyle,
                 scrollY, scrollTimers, afterTick, preStyle, mountStyle>>

\* A 100 ms timer of hideBrowserChrome fires: window.scrollTo(0, 0).
ScrollTimerFires ==
  /\ scrollTimers > 0
  /\ ~afterTick
  /\ scrollTimers' = scrollTimers - 1
  /\ scrollY' = 0
  /\ lastOp' = "ScrollTimerFires"
  /\ UNCHANGED <<rev, hasRequestFullscreen, url, rendered, inst, containerRef,
                 isCustomFullscreen, isStandardFullscreen, fullscreenElement,
                 pendingRequests, pendingExits, fsEvents, listeners, bodyStyle,
                 settleTimers, afterTick, preStyle, mountStyle, leaving>>

\* A 200 ms timer of handleOrientationChange of instance i fires.
SettleTimerFires(i) ==
  /\ settleTimers[i] > 0
  /\ ~afterTick
  /\ scrollTimers < MaxTimers
  /\ hideBrowserChrome
  /\ settleTimers' =
       LET left == [settleTimers EXCEPT ![i] = @ - 1]
       IN IF HasContainer(i) /\ rendered = "frame"
          THEN handleOrientationChange(left, "resize")
          ELSE left
  /\ lastOp' = "SettleTimerFires"
  /\ UNCHANGED <<rev, hasRequestFullscreen, url, rendered, inst, containerRef,
                 isCustomFullscreen, isStandardFullscreen, fullscreenElement,
                 pendingRequests, pendingExits, fsEvents, listeners, bodyStyle,
                 afterTick, preStyle, mountStyle, leaving>>

Next ==
  \/ Mount
  \/ Unmount
  \/ ToggleFullscreen
  \/ \E i \in Instances : RequestResolved(i)
  \/ \E i \in Instances : RequestRejected(i)
  \/ AfterNextTick
  \/ ExitCompletes
  \/ UserEscapes
  \/ FullscreenChange
  \/ \E type \in {"orientationchange", "resize"} : OrientationChange(type)
  \/ ScrollTimerFires
  \/ \E i \in Instances : SettleTimerFires(i)

Spec == Init /\ [][Next]_vars

\* The same steps under the scheduling of the browser's event loop: a queued
\* fullscreenchange event is dispatched in the end, and the microtask that
\* resumes toggleCustomFullscreen after await nextTick() runs.  It starts in
\* the two-flag revisions, on a container that has requestFullscreen and a
\* page whose styles are unset.
FairInit ==
  /\ Init
  /\ rev # "vue"
  /\ hasRequestFullscreen
  /\ bodyStyle = Unset

FairSpec ==
  /\ FairInit
  /\ [][Next]_vars
  /\ WF_vars(AfterNextTick)
  /\ SF_vars(FullscreenChange)

(***************************************************************************)
(* The resolver specification: props.url starts anywhere in UrlInputs, the *)
(* component is mounted and unmounted, and props.url changes.              *)
(***************************************************************************)
InitUrl ==
  /\ InitFullscreen
  /\ hasRequestFullscreen
  /\ bodyStyle = Unset
  /\ url \in UrlInputs
  /\ rendered = "none"
  /\ lastOp = "init"

NextUrl ==
  \/ \E u \in MainUrls : SetUrl(u)
  \/ Mount
  \/ Unmount

SpecUrl == InitUrl /\ [][NextUrl]_vars

(***************************************************************************)
(* Claims                                                                  *)
(***************************************************************************)

\* A step that delivers the rejection of a fullscreen request of the mounted
\* instance.
RejectedWhileMounted ==
  /\ lastOp' = "RequestRejected"
  /\ containerRef
  /\ pendingRequests'[inst] = pendingRequests[inst] - 1

\* A step that delivers the rejection of a fullscreen request of an instance
\* whose container is gone.
RejectedAfterUnmount ==
  /\ lastOp' = "RequestRejected"
  /\ \E i \in Instances : pendingRequests'[i] = pendingRequests[i] - 1 /\ ~HasContainer(i)

\* C1 as stated: after every rejection of a fullscreen request (of the mounted
\* instance) simulated fullscreen is active and the label of the toggle
\* control is "Exit fullscreen", whatever the state the rejection arrives in.
C1_RejectionEntersSimulated ==
  [][RejectedWhileMounted =>
       (isCustomFullscreen' /\ Label' = "Exit fullscreen")]_vars

\* C1 as amended: the rejection continuation of a request of the mounted
\* instance flips simulated fullscreen; when simulated fullscreen was inactive
\* as the rejection arrived it is active afterwards and the label is
\* "Exit fullscreen".
C1_RejectionFlipsSimulated ==
  [][RejectedWhileMounted =>
       /\ isCustomFullscreen' = ~isCustomFullscreen
       /\ ~isCustomFullscreen => (isCustomFullscreen' /\ Label' = "Exit fullscreen")]_vars

\* C1 witness: the first instance has had its request rejected and is in
\* simulated fullscreen, the control reading "Exit fullscreen".
C1_Witness ==
  /\ lastOp = "RequestRejected"
  /\ inst = 1
  /\ containerRef
  /\ hasRequestFullscreen
  /\ isCustomFullscreen
  /\ Label = "Exit fullscreen"

\* C2 as stated: a step that leaves simulated fullscreen (the flag goes from
\* true to false in toggleCustomFullscreen) leaves overflow, position, width
\* and height of the page at the values they had before the entry.
C2_ExitRestoresPreEntryStyle ==
  [][(/\ lastOp' \in {"ToggleFullscreen", "RequestRejected"}
      /\ isCustomFullscreen
      /\ ~isCustomFullscreen') => bodyStyle' = preStyle]_vars

\* Platform fullscreen as the widget has it: the flag of the two-flag
\* revisions, the browser's fullscreen element in the revision without the flag.
PlatformActive == IF rev = "vue" THEN fullscreenElement ELSE isStandardFullscreen

\* C3 as stated: whenever the toggle control is rendered, in every revision,
\* its label is "Exit fullscreen" exactly when platform or simulated
\* fullscreen is active, and "Enter fullscreen" otherwise.
C3_LabelReflectsFullscreen ==
  ButtonRendered =>
    /\ Label \in {"Exit fullscreen", "Enter fullscreen"}
    /\ Label = "Exit fullscreen" <=> (PlatformActive \/ isCustomFullscreen)

\* C4: in the two-flag revisions isFullscreen is true exactly when at least
\* one of isStandardFullscreen and isCustomFullscreen is true.
C4_IsFullscreenIffAFlag ==
  rev # "vue" =>
    /\ (isStandardFullscreen \/ isCustomFullscreen) => isFullscreen
    /\ (~isStandardFullscreen /\ ~isCustomFullscreen) => ~isFullscreen

\* C4 witness: platform fullscreen alone makes isFullscreen true.
C4_Witness ==
  /\ rev = "p001"
  /\ containerRef
  /\ isStandardFullscreen
  /\ ~isCustomFullscreen
  /\ isFullscreen

\* C5: in part_000, on an instance mounted on unset page styles, the four
\* page style properties are all applied while simulated fullscreen is active
\* and all unset while it is not.
C5_StylesAppliedIffSimulated ==
  (rev = "p000" /\ containerRef /\ mountStyle = Unset) =>
    IF isCustomFullscreen
    THEN bodyStyle = Style("hidden", "fixed", "100%", "100%")
    ELSE bodyStyle = Style("", "", "", "")

\* C5 witness: simulated fullscreen was entered and left again on an instance
\* mounted on unset page styles, and the styles are unset.
C5_Witness ==
  /\ rev = "p000"
  /\ containerRef
  /\ mountStyle = Unset
  /\ lastOp = "RequestRejected"
  /\ ~isCustomFullscreen
  /\ scrollTimers > 0
  /\ bodyStyle = Unset

\* The event types a revision registers handlers for.
RegisteredTypes ==
  IF rev = "p000" THEN {"fullscreenchange", "orientationchange", "resize"}
  ELSE IF rev = "p001" THEN {"fullscreenchange"}
  ELSE {}

\* C6: in part_000 and part_001 every handler of the revision is registered
\* exactly once (by the current instance) while the component is mounted and
\* not at all while it is unmounted.
C6_ListenersFollowMount ==
  \A t \in RegisteredTypes :
    /\ listeners[t] = (IF containerRef THEN {inst} ELSE {})
    /\ Cardinality(listeners[t]) = (IF containerRef THEN 1 ELSE 0)

\* C6 witness: a second instance is mounted after the first was unmounted.
C6_Witness ==
  /\ rev = "p000"
  /\ inst = 2
  /\ containerRef
  /\ \A t \in EventTypes : listeners[t] = {2}

\* The positions in u of  lit <token> "/"  with a token of one or more class
\* characters: the form of a presentation URL the specification describes.
SlashFormPositions(u, lit) ==
  {i \in 1..Len(u) :
     /\ LiteralAt(u, lit, i)
     /\ \E k \in (i + Len(lit))..(Len(u) - 1) :
          /\ \A m \in (i + Len(lit))..k : u[m] \in IdChars
          /\ u[k + 1] = "/"}

\* The ID of the leftmost such form: from the end of path to the "/".
SlashFormId(u, path, idStart) ==
  LET ps == SlashFormPositions(u, path \o idStart)
      i == CHOOSE p \in ps : \A q \in ps : p <= q
      from == i + Len(path) + Len(idStart)
      k == CHOOSE e \in from..(Len(u) - 1) :
             (\A m \in from..e : u[m] \in IdChars) /\ u[e + 1] = "/"
  IN SubSeq(u, i + Len(path), k)

\* C7 as stated: the resolver returns the published reference for
\* .../presentation/d/e/2PACX-<token>/..., else the regular reference for
\* .../presentation/d/<token>/..., and null for every other string, in
\* particular when the ID is not followed by "/".
C7_ResolverBySlashForms ==
  LET u == Text(url)
  IN extractPresentationId(u) =
       IF SlashFormPositions(u, PublishedPath \o PublishedPrefix) # {}
       THEN Presentation(SlashFormId(u, PublishedPath, PublishedPrefix), TRUE)
       ELSE IF SlashFormPositions(u, RegularPath) # {}
            THEN Presentation(SlashFormId(u, RegularPath, <<>>), FALSE)
            ELSE Null

\* C8: the embed URL is empty exactly when the resolver returns null; a
\* mounted component renders the placeholder, and neither frame nor toggle
\* control, exactly when the embed URL is empty, and frame and toggle control
\* otherwise.
C8_EmptyIffNullAndPlaceholder ==
  /\ embedUrl = <<>> <=> extractPresentationId(Text(url)) = Null
  /\ containerRef =>
       IF embedUrl = <<>>
       THEN PlaceholderRendered /\ ~FrameRendered /\ ~ButtonRendered
       ELSE ~PlaceholderRendered /\ FrameRendered /\ ButtonRendered

\* C8 witness: a mounted component whose URL does not resolve shows the placeholder.
C8_Witness ==
  /\ containerRef
  /\ lastOp = "Mount"
  /\ extractPresentationId(Text(url)) = Null
  /\ embedUrl = <<>>
  /\ PlaceholderRendered

\* The embed URL the specification gives for a reference.
C9_Expected(id, isPublished) ==
  (IF isPublished
   THEN <<"h","t","t","p","s",":","/","/","d","o","c","s",".","g","o","o","g","l","e",".","c","o","m","/","p","r","e","s","e","n","t","a","t","i","o","n","/","d","/","e","/">>
   ELSE <<"h","t","t","p","s",":","/","/","d","o","c","s",".","g","o","o","g","l","e",".","c","o","m","/","p","r","e","s","e","n","t","a","t","i","o","n","/","d","/">>)
  \o id
  \o <<"/","e","m","b","e","d","?","s","t","a","r","t","=","f","a","l","s","e","&","l","o","o","p","=","f","a","l","s","e","&","d","e","l","a","y","m","s","=","3","0","0","0">>

\* The reference and the embed URL of every input of the resolver specification.
C9_ReferenceOf == [u \in UrlInputs |-> extractPresentationId(Text(u))]
C9_EmbedUrlOf == [u \in UrlInputs |-> computeEmbedUrl(Text(u))]

\* C9: the embed URL of a URL that resolves is the fixed base for its kind,
\* the ID, and /embed?start=false&loop=false&delayms=3000, whatever else the
\* input holds; every input that resolves to the same reference gives the
\* same embed URL.
C9_EmbedUrlFromReference ==
  LET r == extractPresentationId(Text(url))
      e == embedUrl
  IN /\ r # Null => e = C9_Expected(r[1].id, r[1].isPublished)
     /\ \A u \in UrlInputs : C9_ReferenceOf[u] = r => C9_EmbedUrlOf[u] = e

\* C9 witness: https://h/presentation/d/e/2PACX-1v/pub?start=true gives
\* https://docs.google.com/presentation/d/e/2PACX-1v/embed?start=false&loop=false&delayms=3000
C9_Witness ==
  /\ lastOp = "Mount"
  /\ url = <<"https://h", "/presentation/d/e/", "2PACX-1v", "/pub?start=true">>
  /\ embedUrl = <<"h","t","t","p","s",":","/","/","d","o","c","s",".","g","o","o","g","l","e",".","c","o","m","/","p","r","e","s","e","n","t","a","t","i","o","n","/","d","/","e","/","2","P","A","C","X","-","1","v","/","e","m","b","e","d","?","s","t","a","r","t","=","f","a","l","s","e","&","l","o","o","p","=","f","a","l","s","e","&","d","e","l","a","y","m","s","=","3","0","0","0">>

\* C10: a toggle action on an instance without container issues no fullscreen
\* request and no exit, changes neither flag and no page style; a rejection
\* delivered to an instance whose container is gone leaves the simulated flag
\* and the page styles unchanged.
C10_NoContainerNoEffect ==
  [][/\ (lastOp' = "ToggleFullscreen" /\ ~containerRef) =>
          UNCHANGED <<pendingRequests, pendingExits, fullscreenElement,
                      isCustomFullscreen, isStandardFullscreen, bodyStyle, afterTick>>
     /\ RejectedAfterUnmount =>
          UNCHANGED <<isCustomFullscreen, isStandardFullscreen, bodyStyle, afterTick>>]_vars

\* C10 witness: a rejection has been delivered after the instance that asked
\* was unmounted, while the page was in simulated fullscreen.
C10_Witness ==
  /\ lastOp = "RequestRejected"
  /\ ~containerRef
  /\ inst = 1
  /\ isCustomFullscreen
  /\ Total(pendingRequests) = 0

\* C11 as stated: the synthetic resize event the widget dispatches from a
\* settle timer callback schedules, through the widget's own resize listener,
\* no further settle timer: every firing of a settle timer leaves fewer
\* settle timers pending, so that the timers run out when no further user
\* action or browser event arrives.
C11_SyntheticResizeSchedulesNoTimer ==
  [][lastOp' = "SettleTimerFires" =>
       Total(settleTimers') < Total(settleTimers)]_vars

\* C12 as stated: when the control is clicked once while isFullscreen is true
\* and no request, exit or fullscreenchange event is in flight, then, once the
\* request or exit it issued is settled and the fullscreenchange event that
\* follows is handled (nothing in flight again, no other user action in
\* between), isFullscreen is false.  Stated of the revisions that handle
\* the fullscreenchange event.
C12_SingleToggleLeavesFullscreen ==
  (rev # "vue" /\ leaving /\ containerRef /\ InFlight = 0 /\ ~afterTick)
    => ~isFullscreen

\* C13 as stated: in the two-flag revisions isStandardFullscreen and
\* isCustomFullscreen are never true together.
C13_FlagsNeverBothTrue ==
  rev # "vue" => ~(isStandardFullscreen /\ isCustomFullscreen)

\* C14: timer callbacks are neither cancelled nor guarded.  A step of an
\* instance that leaves simulated fullscreen leaves every pending timer
\* pending; a settle timer that fires makes its scroll nudge
\* (window.scrollTo(0, 1)) and schedules the scroll retry, and a scroll retry
\* that fires scrolls to the top, whatever isCustomFullscreen is by then.
C14_TimersNeitherCancelledNorGuarded ==
  [][/\ (isCustomFullscreen /\ ~isCustomFullscreen' /\ inst' = inst) =>
          UNCHANGED <<scrollTimers, settleTimers>>
     /\ lastOp' = "SettleTimerFires" =>
          (scrollY' = 1 /\ scrollTimers' = scrollTimers + 1)
     /\ lastOp' = "ScrollTimerFires" => scrollY' = 0]_vars

\* C14 witness: the settle timer the first instance scheduled in simulated
\* fullscreen has fired and made its scroll nudge after the instance left
\* simulated fullscreen.
C14_Witness ==
  /\ rev = "p000"
  /\ inst = 1
  /\ containerRef
  /\ lastOp = "SettleTimerFires"
  /\ ~isCustomFullscreen
  /\ scrollY = 1
  /\ scrollTimers = 1

\* The browser has just changed its fullscreen element for a mounted instance
\* of a two-flag revision: a request was granted or fullscreen was left.
ElementChanged ==
  /\ rev # "vue"
  /\ containerRef
  /\ lastOp \in {"RequestResolved", "ExitCompletes", "UserEscapes"}
  /\ fsEvents > 0

\* C15: in the two-flag revisions every fullscreenchange event handled while
\* the component is mounted sets isStandardFullscreen to whether
\* document.fullscreenElement is an element at that moment; and, the browser
\* dispatching its queued fullscreenchange events in the end, after a granted
\* request and after an exit isStandardFullscreen eventually equals it
\* (unless the component is unmounted first).
C15_FullscreenChangeSetsTruth ==
  /\ [][(lastOp' = "FullscreenChange" /\ rev # "vue" /\ containerRef) =>
          (isStandardFullscreen' = fullscreenElement /\ UNCHANGED fullscreenElement)]_vars
  /\ ElementChanged ~> (~containerRef \/ isStandardFullscreen = fullscreenElement)

\* C15 witness: the event that follows a granted request has been handled by
\* the mounted instance, and isStandardFullscreen is true as is the browser's
\* fullscreen element.
C15_Witness ==
  /\ rev = "p000"
  /\ containerRef
  /\ lastOp = "FullscreenChange"
  /\ fsEvents = 0
  /\ fullscreenElement
  /\ isStandardFullscreen

\* C16: the toggle action and its continuations (the exit the browser carries
\* out, the granted request, the rejection with its fallback and the
\* resumption after nextTick) leave isStandardFullscreen as it is; within an
\* instance isStandardFullscreen changes only in the step that handles a
\* fullscreenchange event.
C16_OnlyHandlerWritesPlatformFlag ==
  [][/\ lastOp' \in {"ToggleFullscreen", "RequestResolved", "RequestRejected",
                     "AfterNextTick", "ExitCompletes"}
          => UNCHANGED isStandardFullscreen
     /\ (isStandardFullscreen' # isStandardFullscreen /\ inst' = inst)
          => lastOp' = "FullscreenChange"]_vars

\* C16 witness: the control was clicked in platform fullscreen; the exit is
\* requested and isStandardFullscreen is still true.
C16_Witness ==
  /\ rev = "p000"
  /\ containerRef
  /\ lastOp = "ToggleFullscreen"
  /\ pendingExits = 1
  /\ fullscreenElement
  /\ isStandardFullscreen

\* C17: a click on the control of a mounted instance while
\* document.fullscreenElement is an element, whatever the two flags are, only
\* calls document.exitFullscreen(): it issues no fullscreen request and
\* changes neither isCustomFullscreen nor the page styles.
C17_ToggleDecidesOnFullscreenElement ==
  [][(lastOp' = "ToggleFullscreen" /\ containerRef /\ fullscreenElement) =>
       /\ pendingExits' = pendingExits + 1
       /\ UNCHANGED <<pendingRequests, isCustomFullscreen, isStandardFullscreen,
                      bodyStyle, afterTick>>]_vars

\* C17 witness: the control was clicked while the browser was in fullscreen,
\* isStandardFullscreen was still false and isCustomFullscreen true; only the
\* exit was requested.
C17_Witness ==
  /\ rev = "p000"
  /\ containerRef
  /\ lastOp = "ToggleFullscreen"
  /\ fullscreenElement
  /\ ~isStandardFullscreen
  /\ isCustomFullscreen
  /\ pendingExits = 1
  /\ Total(pendingRequests) = 0

\* The page styles are held for simulated fullscreen.
StylesHeld(s) == s.overflow = "hidden"

programVars ==
  <<inst, containerRef, isCustomFullscreen, isStandardFullscreen,
    fullscreenElement, pendingRequests, pendingExits, fsEvents, listeners,
    bodyStyle, scrollY, scrollTimers, settleTimers, afterTick>>

\* A step that delivers an orientationchange or resize event of the browser.
Notified == lastOp' \in {"orientationchange", "resize"}

\* C19: neither the delivery of an orientationchange or resize event nor the
\* firing of a settle timer changes isStandardFullscreen, isCustomFullscreen
\* or the page styles; an event delivered while isCustomFullscreen is false
\* changes nothing at all; a settle timer is scheduled, by an event or by the
\* resize a firing timer dispatches, only while isCustomFullscreen is true,
\* and then one timer of the current instance per event.
C19_OrientationHandlerFrame ==
  [][/\ (Notified \/ lastOp' = "SettleTimerFires") =>
          UNCHANGED <<isStandardFullscreen, isCustomFullscreen, bodyStyle>>
     /\ (Notified /\ ~isCustomFullscreen) => UNCHANGED programVars
     /\ (Notified /\ settleTimers' # settleTimers) =>
          /\ isCustomFullscreen
          /\ settleTimers' = [settleTimers EXCEPT ![inst] = @ + 1]
          /\ UNCHANGED <<scrollY, scrollTimers>>
     /\ (lastOp' = "SettleTimerFires" /\ Total(settleTimers') >= Total(settleTimers)) =>
          isCustomFullscreen]_vars

\* C19 witness: an orientationchange event delivered in simulated fullscreen
\* has scheduled a settle timer, next to the one pending already, and the
\* flags and page styles are as they were.
C19_Witness ==
  /\ rev = "p000"
  /\ containerRef
  /\ lastOp = "orientationchange"
  /\ isCustomFullscreen
  /\ ~isStandardFullscreen
  /\ settleTimers[inst] = 2
  /\ bodyStyle = Style("hidden", "fixed", "100%", "100%")

\* C20 as stated: once an instance of part_000 that was mounted on a page
\* with unset styles is unmounted, in whatever fullscreen state, overflow,
\* position, width and height of the page are unset.
C20_StylesUnsetAfterUnmount ==
  (rev = "p000" /\ inst >= 1 /\ ~containerRef /\ mountStyle = Unset)
    => bodyStyle = Unset

====
